---- MODULE Spec2Model ----
(***************************************************************************)
(* Model of streaming/vision/base.py: StandardTransform and               *)
(* StreamingVisionDataset (constructor and get_item).                      *)
(*                                                                         *)
(* Python values are modelled as follows.                                  *)
(*  - A callable is a name (a string); "None" is Python's None.  A name in *)
(*    FalsyCallables is a callable object whose truth value is False (for  *)
(*    instance a container-like callable of length 0).                     *)
(*  - A sample value is the sequence of names that built it: the raw value *)
(*    first, then every function applied to it, in order.  A function is   *)
(*    therefore never the identity and two different functions never give  *)
(*    the same result.                                                     *)
(*  - What a call returns is a sequence of sample values; a pair has       *)
(*    length 2.                                                            *)
(*  - An exception is named after the callee that raised it.               *)
(***************************************************************************)
EXTENDS Integers, Sequences, FiniteSets, TLC

VARIABLES phase, ctorKw, ctorTransforms, engineKw, self_transform,
          self_target_transform, self_transforms, ctorError, calls

vars == <<phase, ctorKw, ctorTransforms, engineKw, self_transform,
          self_target_transform, self_transforms, ctorError, calls>>

\* Number of get_item calls recorded in one behaviour.
MaxCalls == 2

----------------------------------------------------------------------------
\* Constructor keyword arguments that configure the streaming engine.

OptionNames ==
    {"remote", "local", "split", "download_retry", "download_timeout",
     "validate_hash", "keep_zip", "keep_raw", "choose", "predownload",
     "partition_algo", "num_canonical_nodes", "batch_size", "shuffle",
     "shuffle_algo", "shuffle_seed", "shuffle_block_size"}

\* The default of every option, as written in the signature.
OptionDefault(k) ==
    CASE k = "remote" -> "None"
      [] k = "local" -> "None"
      [] k = "split" -> "None"
      [] k = "download_retry" -> "2"
      [] k = "download_timeout" -> "60"
      [] k = "validate_hash" -> "None"
      [] k = "keep_zip" -> "False"
      [] k = "keep_raw" -> "True"
      [] k = "choose" -> "None"
      [] k = "predownload" -> "100000"
      [] k = "partition_algo" -> "orig"
      [] k = "num_canonical_nodes" -> "None"
      [] k = "batch_size" -> "None"
      [] k = "shuffle" -> "False"
      [] k = "shuffle_algo" -> "py1b"
      [] k = "shuffle_seed" -> "9176"
      [] k = "shuffle_block_size" -> "262144"

\* A value a caller may give instead of the default.
OptionOther(k) ==
    CASE k = "remote" -> "s3://bucket/data"
      [] k = "local" -> "/tmp/cache"
      [] k = "split" -> "train"
      [] k = "download_retry" -> "5"
      [] k = "download_timeout" -> "120"
      [] k = "validate_hash" -> "sha1"
      [] k = "keep_zip" -> "True"
      [] k = "keep_raw" -> "False"
      [] k = "choose" -> "1000"
      [] k = "predownload" -> "512"
      [] k = "partition_algo" -> "relaxed"
      [] k = "num_canonical_nodes" -> "8"
      [] k = "batch_size" -> "32"
      [] k = "shuffle" -> "True"
      [] k = "shuffle_algo" -> "py1s"
      [] k = "shuffle_seed" -> "17"
      [] k = "shuffle_block_size" -> "4096"

\* The sets of options a caller overrides: none, any single one, or all.
OverrideSets == {{}} \cup {{k} : k \in OptionNames} \cup {OptionNames}

KwOf(S) == [k \in OptionNames |-> IF k \in S THEN OptionOther(k) ELSE OptionDefault(k)]

\* The keyword arguments given to StreamingDataset.__init__.
EngineInitNames ==
    {"remote", "local", "split", "download_retry", "download_timeout",
     "validate_hash", "keep_zip", "keep_raw", "predownload",
     "partition_algo", "num_canonical_nodes", "batch_size", "shuffle",
     "shuffle_algo", "shuffle_seed", "shuffle_block_size"}

EngineInitCall(kw) == [k \in EngineInitNames |-> kw[k]]

----------------------------------------------------------------------------
\* Callables.

JointFns == {"F_pair", "F_one", "F_falsy", "F_raise"}
InputFns == {"T", "T_falsy", "T_raise"}
TargetFns == {"G", "G_falsy", "G_raise"}

FalsyCallables == {"F_falsy", "T_falsy", "G_falsy"}

\* Variant: presence tested with "is not None".
Truthy_IsNotNone(f) == f # "None"

\* Python truth value of an Optional[Callable].
Truthy(f) == f # "None" /\ f \notin FalsyCallables

RawX == {"img0", "img1", "notimg"}
RawY == {"cat", "dog"}
Indices == {0, 1}

\* Whether calling the one-argument callable f on value v raises.
\* to_tensor raises on an input that is not an image; the raising user
\* transforms raise on one particular raw value.
Raises1(f, v) ==
    CASE f = "to_tensor" -> v[1] = "notimg"
      [] f = "T_raise" -> v[1] = "img1"
      [] f = "G_raise" -> v[1] = "dog"
      [] OTHER -> FALSE

\* The value a one-argument callable returns.
Apply1(f, v) == Append(v, f)

\* Whether the joint callable f raises on (x, y).
Raises2(f, x, y) == f = "F_raise" /\ y[1] = "dog"

\* What a joint callable returns: F_one returns a single merged value
\* (not a pair), the others a pair.
Apply2(f, x, y) ==
    IF f = "F_one" THEN << x \o y \o <<f>> >>
    ELSE << Append(x, f), Append(y, f) >>

NoValue == << >>

\* Outcome of a call: which callables were invoked, in order, and either
\* the returned value or the raised error.
Returned(inv, val) == [invoked |-> inv, status |-> "returned", value |-> val, error |-> "none"]
Raised(inv, err) == [invoked |-> inv, status |-> "raised", value |-> NoValue, error |-> err]

----------------------------------------------------------------------------
\* StandardTransform

\* StandardTransform.__init__: the object is the pair of its two fields.
StandardTransform(transform, target_transform) ==
    [kind |-> "standard", fn |-> "None",
     transform |-> transform, target_transform |-> target_transform]

\* A joint callable supplied by the caller, stored as it is.
JointCallable(f) ==
    [kind |-> "joint", fn |-> f, transform |-> "None", target_transform |-> "None"]

NoObject ==
    [kind |-> "unset", fn |-> "None", transform |-> "None", target_transform |-> "None"]

\* The callable applied to the input: the transform when it evaluates as
\* true, to_tensor otherwise.
InputCallee(transform) == IF Truthy(transform) THEN transform ELSE "to_tensor"

\* Variant: an absent input transform leaves the input as it is.
StandardTransformCall_PassThrough(st, x, y) ==
    LET inv1 == IF Truthy(st.transform) THEN <<st.transform>> ELSE << >>
        inv2 == IF Truthy(st.target_transform) THEN <<st.target_transform>> ELSE << >>
    IN  IF Truthy(st.transform) /\ Raises1(st.transform, x)
        THEN Raised(inv1, st.transform)
        ELSE IF Truthy(st.target_transform) /\ Raises1(st.target_transform, y)
        THEN Raised(inv1 \o inv2, st.target_transform)
        ELSE Returned(inv1 \o inv2,
                      << IF Truthy(st.transform) THEN Apply1(st.transform, x) ELSE x,
                         IF Truthy(st.target_transform)
                         THEN Apply1(st.target_transform, y) ELSE y >>)

\* Variant: to_tensor is applied first, whatever the input transform.
StandardTransformCall_AlwaysTensor(st, x, y) ==
    IF Raises1("to_tensor", x) THEN Raised(<<"to_tensor">>, "to_tensor")
    ELSE LET x1 == Apply1("to_tensor", x)
             inv1 == IF Truthy(st.transform) THEN <<"to_tensor", st.transform>>
                     ELSE <<"to_tensor">>
             inv2 == IF Truthy(st.target_transform) THEN <<st.target_transform>> ELSE << >>
         IN  IF Truthy(st.transform) /\ Raises1(st.transform, x1)
             THEN Raised(inv1, st.transform)
             ELSE IF Truthy(st.target_transform) /\ Raises1(st.target_transform, y)
             THEN Raised(inv1 \o inv2, st.target_transform)
             ELSE Returned(inv1 \o inv2,
                           << IF Truthy(st.transform) THEN Apply1(st.transform, x1) ELSE x1,
                              IF Truthy(st.target_transform)
                              THEN Apply1(st.target_transform, y) ELSE y >>)

\* StandardTransform.__call__(x, y)
StandardTransformCall(st, x, y) ==
    LET fx == InputCallee(st.transform)
    IN  IF Raises1(fx, x) THEN Raised(<<fx>>, fx)
        ELSE LET x2 == Apply1(fx, x)
             IN  IF Truthy(st.target_transform)
                 THEN IF Raises1(st.target_transform, y)
                      THEN Raised(<<fx, st.target_transform>>, st.target_transform)
                      ELSE Returned(<<fx, st.target_transform>>,
                                    <<x2, Apply1(st.target_transform, y)>>)
                 ELSE Returned(<<fx>>, <<x2, y>>)

\* Variant: the result of a joint callable is rejected unless it is a pair.
TransformsCall_Validating(obj, x, y) ==
    IF obj.kind = "joint"
    THEN IF Raises2(obj.fn, x, y) THEN Raised(<<obj.fn>>, obj.fn)
         ELSE IF Len(Apply2(obj.fn, x, y)) # 2 THEN Raised(<<obj.fn>>, "validation")
         ELSE Returned(<<obj.fn>>, Apply2(obj.fn, x, y))
    ELSE StandardTransformCall(obj, x, y)

\* self.transforms(x, y): a joint callable or a StandardTransform.
TransformsCall(obj, x, y) ==
    IF obj.kind = "joint"
    THEN IF Raises2(obj.fn, x, y) THEN Raised(<<obj.fn>>, obj.fn)
         ELSE Returned(<<obj.fn>>, Apply2(obj.fn, x, y))
    ELSE StandardTransformCall(obj, x, y)

----------------------------------------------------------------------------
\* The streaming engine's retrieval, super().get_item(idx): it returns the
\* raw sample {'x': x, 'y': y} or raises.

EngineOutcomes ==
    {[ok |-> FALSE, x |-> NoValue, y |-> NoValue]}
    \cup {[ok |-> TRUE, x |-> <<rx>>, y |-> <<ry>>] : rx \in RawX, ry \in RawY}

\* Variant: a failed retrieval is attempted a second time before giving up.
GetItemCall_Retry(transforms, idx, eng) ==
    IF ~eng.ok
    THEN [idx |-> idx, engineIdx |-> <<idx, idx>>, raw |-> NoValue,
          invoked |-> << >>, status |-> "raised", value |-> NoValue,
          error |-> "engine"]
    ELSE LET r == TransformsCall(transforms, eng.x, eng.y)
         IN  [idx |-> idx, engineIdx |-> <<idx>>, raw |-> <<eng.x, eng.y>>,
              invoked |-> r.invoked, status |-> r.status, value |-> r.value,
              error |-> r.error]

\* StreamingVisionDataset.get_item(idx), given what the engine does for idx.
\* The record holds the index asked for, the indices asked of the engine,
\* the raw pair, the callables invoked and the outcome.
GetItemCall(transforms, idx, eng) ==
    IF ~eng.ok
    THEN [idx |-> idx, engineIdx |-> <<idx>>, raw |-> NoValue,
          invoked |-> << >>, status |-> "raised", value |-> NoValue,
          error |-> "engine"]
    ELSE LET r == TransformsCall(transforms, eng.x, eng.y)
         IN  [idx |-> idx, engineIdx |-> <<idx>>, raw |-> <<eng.x, eng.y>>,
              invoked |-> r.invoked, status |-> r.status, value |-> r.value,
              error |-> r.error]

----------------------------------------------------------------------------
\* StreamingVisionDataset.__init__

ConfigurationError == "ValueError: Only transforms or transform/target_transform can be passed as an argument"

has_transforms(transforms) == transforms # "None"

\* Variant: only the input transform counts as a separate transform.
has_separate_transform_InputOnly(transform, target_transform) ==
    transform # "None"

has_separate_transform(transform, target_transform) ==
    transform # "None" \/ target_transform # "None"

\* Whether the constructor raises for these three arguments.
CtorRaises(transforms, transform, target_transform) ==
    has_transforms(transforms) /\ has_separate_transform(transform, target_transform)

\* The value assigned to self.transforms.
CtorTransforms(transforms, transform, target_transform) ==
    IF ~has_transforms(transforms)
    THEN StandardTransform(transform, target_transform)
    ELSE JointCallable(transforms)

\* The transform arguments of a constructor call.  explicitNone tells whether
\* the caller wrote transform=None, target_transform=None in the call instead
\* of leaving both keywords out; the constructor receives None either way.
TransformArgs ==
    {a \in [transforms : JointFns \cup {"None"},
            transform : InputFns \cup {"None"},
            target_transform : TargetFns \cup {"None"},
            explicitNone : BOOLEAN] :
       a.explicitNone => (a.transform = "None" /\ a.target_transform = "None")}

Init ==
    /\ phase = "new"
    /\ ctorKw = KwOf({})
    /\ ctorTransforms = [transforms |-> "None", transform |-> "None",
                       target_transform |-> "None", explicitNone |-> FALSE]
    /\ engineKw = << >>
    /\ self_transform = "unset"
    /\ self_target_transform = "unset"
    /\ self_transforms = NoObject
    /\ ctorError = "none"
    /\ calls = << >>

\* The constructor call: the engine is constructed first, then the
\* transform arguments are checked and stored.
Construct ==
    /\ phase = "new"
    /\ \E S \in OverrideSets, a \in TransformArgs :
         /\ ctorKw' = KwOf(S)
         /\ ctorTransforms' = a
         /\ engineKw' = EngineInitCall(KwOf(S))
         /\ IF CtorRaises(a.transforms, a.transform, a.target_transform)
            THEN /\ phase' = "failed"
                 /\ ctorError' = ConfigurationError
                 /\ UNCHANGED <<self_transform, self_target_transform, self_transforms>>
            ELSE /\ phase' = "constructed"
                 /\ ctorError' = "none"
                 /\ self_transform' = a.transform
                 /\ self_target_transform' = a.target_transform
                 /\ self_transforms' = CtorTransforms(a.transforms, a.transform, a.target_transform)
    /\ UNCHANGED calls

\* Variant: a sample returned before for the same index is returned again
\* without asking the engine.
GetItem_Cached ==
    /\ phase = "constructed"
    /\ Len(calls) < MaxCalls
    /\ \E idx \in Indices, eng \in EngineOutcomes :
         LET hits == {i \in 1..Len(calls) :
                        calls[i].idx = idx /\ calls[i].status = "returned"}
         IN  calls' = Append(calls,
                 IF hits # {}
                 THEN [calls[CHOOSE i \in hits : TRUE] EXCEPT !.engineIdx = << >>]
                 ELSE GetItemCall(self_transforms, idx, eng))
    /\ UNCHANGED <<phase, ctorKw, ctorTransforms, engineKw, self_transform,
                   self_target_transform, self_transforms, ctorError>>

\* One get_item(idx) call on the constructed dataset.
GetItem ==
    /\ phase = "constructed"
    /\ Len(calls) < MaxCalls
    /\ \E idx \in Indices, eng \in EngineOutcomes :
         calls' = Append(calls, GetItemCall(self_transforms, idx, eng))
    /\ UNCHANGED <<phase, ctorKw, ctorTransforms, engineKw, self_transform,
                   self_target_transform, self_transforms, ctorError>>

Next == Construct \/ GetItem

Spec == Init /\ [][Next]_vars

----------------------------------------------------------------------------
\* Properties.

CallIdx == 1..Len(calls)

\* The constructor arguments fall in one of the transform conventions.
JointOnly ==
    /\ phase = "constructed"
    /\ ctorTransforms.transforms # "None"
    /\ ctorTransforms.transform = "None"
    /\ ctorTransforms.target_transform = "None"

NoJoint == phase = "constructed" /\ ctorTransforms.transforms = "None"

AllNone ==
    /\ NoJoint
    /\ ctorTransforms.transform = "None"
    /\ ctorTransforms.target_transform = "None"

\* The engine returned a raw pair in call c.
HasRaw(c) == c.raw # NoValue

NormX(c) == Append(c.raw[1], "to_tensor")

\* What the target slot holds after a target transform g that is invoked
\* only when it is not None and not falsy.
TargetOut(g, y) == IF g = "None" \/ g \in FalsyCallables THEN y ELSE Append(y, g)

\* The callable the input goes through for the given input transform.
GivenInputCallee ==
    IF ctorTransforms.transform = "None" \/ ctorTransforms.transform \in FalsyCallables
    THEN "to_tensor" ELSE ctorTransforms.transform

TargetInvoked(g) == IF g = "None" \/ g \in FalsyCallables THEN << >> ELSE <<g>>

\* C1: the constructor fails with the configuration error exactly when the
\* joint transform is given (not None) together with an input or a target
\* transform (not None); otherwise it succeeds, and no get_item call ever
\* ends with the configuration error.
C1_ExclusiveTransforms ==
    /\ phase # "new" =>
         /\ (phase = "failed") <=>
              /\ ctorTransforms.transforms # "None"
              /\ \/ ctorTransforms.transform # "None"
                 \/ ctorTransforms.target_transform # "None"
         /\ (phase = "failed") <=> (ctorError = ConfigurationError)
         /\ (phase = "constructed") <=> (ctorError = "none")
    /\ phase = "failed" => calls = << >>
    /\ \A i \in CallIdx : calls[i].error # ConfigurationError

C1_Witness ==
    /\ phase = "failed"
    /\ ctorTransforms.transforms = "F_pair"
    /\ ctorTransforms.transform = "None"
    /\ ctorTransforms.target_transform = "G"
    /\ ctorError = ConfigurationError

\* C2 as stated: with no joint and no input transform and a target
\* transform ft given, get_item returns (raw_x, ft(raw_y)): the input is
\* passed through without to_tensor.
C2_InputPassThrough ==
    \A i \in CallIdx :
      ( /\ NoJoint
        /\ ctorTransforms.transform = "None"
        /\ ctorTransforms.target_transform # "None"
        /\ HasRaw(calls[i])
        /\ calls[i].status = "returned" )
      => calls[i].value = << calls[i].raw[1],
                             Append(calls[i].raw[2], ctorTransforms.target_transform) >>

\* C2 amended: with no joint and no input transform and a target transform
\* ft given, get_item returns (to_tensor(raw_x), ft(raw_y)) when ft
\* evaluates as true and (to_tensor(raw_x), raw_y) when ft is falsy; the
\* input always goes through to_tensor, once; the call returns unless
\* to_tensor or the invoked ft raises.
C2_InputNormalized ==
    \A i \in CallIdx :
      ( /\ NoJoint
        /\ ctorTransforms.transform = "None"
        /\ ctorTransforms.target_transform # "None"
        /\ HasRaw(calls[i]) )
      => LET c == calls[i]
             ft == ctorTransforms.target_transform
             ftRaises == ft \notin FalsyCallables /\ Raises1(ft, c.raw[2])
         IN  /\ c.status = "returned" <=> (~Raises1("to_tensor", c.raw[1]) /\ ~ftRaises)
             /\ c.status = "returned" =>
                  /\ c.value = << NormX(c), TargetOut(ft, c.raw[2]) >>
                  /\ c.invoked = <<"to_tensor">> \o TargetInvoked(ft)

C2_Witness ==
    \E i \in CallIdx :
      /\ NoJoint
      /\ ctorTransforms.transform = "None"
      /\ ctorTransforms.target_transform = "G"
      /\ calls[i].raw = << <<"img0">>, <<"cat">> >>
      /\ calls[i].value = << <<"img0", "to_tensor">>, <<"cat", "G">> >>

\* C3 as stated: when transform=None and target_transform=None are written
\* explicitly, get_item returns (raw_x, raw_y) unchanged, unlike the
\* construction with no transform argument.
C3_ExplicitNoneUnchanged ==
    \A i \in CallIdx :
      ( /\ AllNone
        /\ ctorTransforms.explicitNone
        /\ HasRaw(calls[i])
        /\ calls[i].status = "returned" )
      => calls[i].value = calls[i].raw

\* C3 amended: writing transform=None and target_transform=None explicitly
\* is the same as writing no transform argument: the dataset holds the same
\* StandardTransform(None, None) and get_item returns
\* (to_tensor(raw_x), raw_y).
C3_ExplicitNoneIsDefault ==
    (AllNone /\ ctorTransforms.explicitNone) =>
      /\ self_transforms = [kind |-> "standard", fn |-> "None",
                            transform |-> "None", target_transform |-> "None"]
      /\ self_transform = "None"
      /\ self_target_transform = "None"
      /\ \A i \in CallIdx :
           (HasRaw(calls[i]) /\ calls[i].status = "returned")
           => calls[i].value = << NormX(calls[i]), calls[i].raw[2] >>

C3_Witness ==
    \E i \in CallIdx :
      /\ AllNone
      /\ ctorTransforms.explicitNone
      /\ calls[i].raw = << <<"img1">>, <<"dog">> >>
      /\ calls[i].value = << <<"img1", "to_tensor">>, <<"dog">> >>

\* C4: with no joint, input or target transform, every get_item whose
\* retrieval succeeded returns (to_tensor(raw_x), raw_y): to_tensor is
\* invoked exactly once and nothing else is, the target is unchanged, and
\* the call returns unless to_tensor itself raises.
C4_Default ==
    \A i \in CallIdx :
      (AllNone /\ HasRaw(calls[i]))
      => LET c == calls[i]
         IN  /\ c.invoked = <<"to_tensor">>
             /\ c.status = "returned" <=> ~Raises1("to_tensor", c.raw[1])
             /\ c.status = "returned" =>
                  /\ Len(c.value) = 2
                  /\ c.value[1] = NormX(c)
                  /\ c.value[2] = c.raw[2]

C4_Witness ==
    \E i \in CallIdx :
      /\ AllNone
      /\ ~ctorTransforms.explicitNone
      /\ calls[i].idx = 0
      /\ calls[i].raw = << <<"img0">>, <<"dog">> >>
      /\ calls[i].value = << <<"img0", "to_tensor">>, <<"dog">> >>

\* C5: with a joint transform f only, every get_item whose retrieval
\* succeeded invokes f exactly once and nothing else (never to_tensor) and
\* returns exactly f(raw_x, raw_y), whatever its shape, also when f is
\* falsy; it fails only when f raises.
C5_JointVerbatim ==
    \A i \in CallIdx :
      (JointOnly /\ HasRaw(calls[i]))
      => LET c == calls[i]
             f == ctorTransforms.transforms
         IN  /\ c.invoked = <<f>>
             /\ c.status = "returned" <=> ~Raises2(f, c.raw[1], c.raw[2])
             /\ c.status = "returned" =>
                  c.value = IF f = "F_one"
                            THEN << c.raw[1] \o c.raw[2] \o <<f>> >>
                            ELSE << Append(c.raw[1], f), Append(c.raw[2], f) >>

C5_Witness ==
    \E i \in CallIdx :
      /\ JointOnly
      /\ ctorTransforms.transforms = "F_one"
      /\ calls[i].status = "returned"
      /\ Len(calls[i].value) = 1
      /\ calls[i].value[1] = <<"img0", "cat", "F_one">>

\* C6 as stated: with an input transform T given (not None) and no joint
\* transform, get_item returns (T(raw_x), raw_y) when no target transform
\* was given and (T(raw_x), ft(raw_y)) when ft was given.
C6_InputTransformApplied ==
    \A i \in CallIdx :
      ( /\ NoJoint
        /\ ctorTransforms.transform # "None"
        /\ HasRaw(calls[i])
        /\ calls[i].status = "returned" )
      => LET c == calls[i]
             T == ctorTransforms.transform
             ft == ctorTransforms.target_transform
         IN  c.value = << Append(c.raw[1], T),
                          IF ft = "None" THEN c.raw[2] ELSE Append(c.raw[2], ft) >>

\* C6 amended: with an input transform T given that evaluates as true and
\* no joint transform, get_item returns (T(raw_x), raw_y) when no target
\* transform was given or the one given is falsy, and (T(raw_x), ft(raw_y))
\* when a target transform ft that evaluates as true was given; to_tensor
\* is not invoked, and the call returns unless T or the invoked ft raises.
C6_TruthyInputTransformApplied ==
    \A i \in CallIdx :
      ( /\ NoJoint
        /\ ctorTransforms.transform # "None"
        /\ ctorTransforms.transform \notin FalsyCallables
        /\ HasRaw(calls[i]) )
      => LET c == calls[i]
             T == ctorTransforms.transform
             ft == ctorTransforms.target_transform
             ftRaises == /\ ft # "None"
                         /\ ft \notin FalsyCallables
                         /\ Raises1(ft, c.raw[2])
         IN  /\ c.status = "returned" <=> (~Raises1(T, c.raw[1]) /\ ~ftRaises)
             /\ \A k \in 1..Len(c.invoked) : c.invoked[k] # "to_tensor"
             /\ c.status = "returned" =>
                  /\ c.value = << Append(c.raw[1], T), TargetOut(ft, c.raw[2]) >>
                  /\ c.invoked = <<T>> \o TargetInvoked(ft)

C6_Witness ==
    \E i \in CallIdx :
      /\ NoJoint
      /\ ctorTransforms.transform = "T"
      /\ ctorTransforms.target_transform = "G"
      /\ calls[i].raw = << <<"notimg">>, <<"dog">> >>
      /\ calls[i].value = << <<"notimg", "T">>, <<"dog", "G">> >>

\* C7: get_item recovers from nothing.  When the retrieval raises, the
\* call ends with the engine's error, the engine was asked exactly once for
\* that index and no callable was invoked.  When a callable raises, the
\* call ends with that callable's error and the raising callable is the
\* last one invoked.  A call that ends with an error returns no value, and
\* a call that returns has no error.
C7_NoRecovery ==
    \A i \in CallIdx :
      LET c == calls[i]
      IN  /\ ~HasRaw(c) =>
               /\ c.status = "raised"
               /\ c.error = "engine"
               /\ c.engineIdx = <<c.idx>>
               /\ c.invoked = << >>
          /\ (HasRaw(c) /\ JointOnly /\ Raises2(ctorTransforms.transforms, c.raw[1], c.raw[2]))
               => (c.status = "raised" /\ c.error = ctorTransforms.transforms)
          /\ (HasRaw(c) /\ NoJoint /\ Raises1(GivenInputCallee, c.raw[1]))
               => (c.status = "raised" /\ c.error = GivenInputCallee)
          /\ (HasRaw(c) /\ NoJoint /\ ~Raises1(GivenInputCallee, c.raw[1])
                /\ TargetInvoked(ctorTransforms.target_transform) # << >>
                /\ Raises1(ctorTransforms.target_transform, c.raw[2]))
               => /\ c.status = "raised"
                  /\ c.error = ctorTransforms.target_transform
                  /\ c.invoked = <<GivenInputCallee, ctorTransforms.target_transform>>
          /\ (HasRaw(c) /\ c.status = "raised") =>
               /\ c.invoked # << >>
               /\ c.error = c.invoked[Len(c.invoked)]
          /\ c.status = "raised" => (c.value = NoValue /\ c.error # "none")
          /\ c.status = "returned" => (c.value # NoValue /\ c.error = "none")
          /\ c.status \in {"raised", "returned"}

\* The input transform ran, the target transform then raised, and nothing
\* was returned; an earlier call failed in the engine.
C7_Witness ==
    \E i, j \in CallIdx :
      /\ calls[i].invoked = <<"T", "G_raise">>
      /\ calls[i].status = "raised"
      /\ calls[i].error = "G_raise"
      /\ calls[i].value = NoValue
      /\ ~HasRaw(calls[j])
      /\ calls[j].error = "engine"

\* C8: every engine option of the constructor reaches the engine's
\* constructor with the value the caller gave.
C8_OptionsForwarded ==
    phase # "new" =>
      \A k \in OptionNames : k \in DOMAIN engineKw /\ engineKw[k] = ctorKw[k]

\* C9: get_item leaves the dataset's fields as the constructor set them,
\* asks the engine exactly once for the requested index in every call,
\* and two calls that got the same raw pair invoke the same callables and
\* end the same way.
C9_Stateless ==
    /\ phase = "constructed" =>
         /\ self_transform = ctorTransforms.transform
         /\ self_target_transform = ctorTransforms.target_transform
         /\ self_transforms =
              IF ctorTransforms.transforms # "None"
              THEN [kind |-> "joint", fn |-> ctorTransforms.transforms,
                    transform |-> "None", target_transform |-> "None"]
              ELSE [kind |-> "standard", fn |-> "None",
                    transform |-> ctorTransforms.transform,
                    target_transform |-> ctorTransforms.target_transform]
    /\ \A i \in CallIdx : calls[i].engineIdx = <<calls[i].idx>>
    /\ \A i, j \in CallIdx :
         (HasRaw(calls[i]) /\ calls[i].raw = calls[j].raw) =>
           /\ calls[i].invoked = calls[j].invoked
           /\ calls[i].status = calls[j].status
           /\ calls[i].value = calls[j].value
           /\ calls[i].error = calls[j].error

\* The same index was asked twice, the engine gave the same raw pair, and
\* the transform ran both times.
C9_Witness ==
    /\ Len(calls) = 2
    /\ calls[1].idx = calls[2].idx
    /\ calls[1].raw = << <<"img0">>, <<"cat">> >>
    /\ calls[2].raw = calls[1].raw
    /\ calls[1].invoked = <<"T", "G">>
    /\ calls[2].invoked = <<"T", "G">>
    /\ calls[2].value = calls[1].value
    /\ calls[2].status = "returned"

\* C10: a falsy (not None) input or target transform given with a joint
\* transform makes the constructor fail; when accepted it is never invoked:
\* the input goes through to_tensor instead of a falsy input transform and
\* the target is unchanged under a falsy target transform.
C10_FalsyTransforms ==
    /\ ( /\ phase # "new"
         /\ ctorTransforms.transforms # "None"
         /\ \/ ctorTransforms.transform \in FalsyCallables
            \/ ctorTransforms.target_transform \in FalsyCallables )
       => (phase = "failed" /\ ctorError = ConfigurationError)
    /\ \A i \in CallIdx :
         LET c == calls[i]
         IN  /\ (NoJoint /\ ctorTransforms.transform \in FalsyCallables /\ HasRaw(c)) =>
                  /\ \A k \in 1..Len(c.invoked) : c.invoked[k] # ctorTransforms.transform
                  /\ c.invoked[1] = "to_tensor"
                  /\ c.status = "returned" => c.value[1] = NormX(c)
             /\ (NoJoint /\ ctorTransforms.target_transform \in FalsyCallables /\ HasRaw(c)) =>
                  /\ \A k \in 1..Len(c.invoked) :
                       c.invoked[k] # ctorTransforms.target_transform
                  /\ c.status = "returned" => c.value[2] = c.raw[2]

C10_Witness ==
    \E i \in CallIdx :
      /\ NoJoint
      /\ ctorTransforms.transform = "T_falsy"
      /\ ctorTransforms.target_transform = "G_falsy"
      /\ calls[i].raw = << <<"img0">>, <<"cat">> >>
      /\ calls[i].invoked = <<"to_tensor">>
      /\ calls[i].value = << <<"img0", "to_tensor">>, <<"cat">> >>

====
